---- MODULE Spec2Model ----
(***************************************************************************)
(* Model of uv's HTTP client builder (crates/uv-client/src/base_client.rs) *)
(* and of the requirements.txt rendering of a pinned distribution          *)
(* (crates/uv-resolver/src/resolution/mod.rs).                             *)
(*                                                                         *)
(* Strings that the code inspects character by character are sequences of  *)
(* one-character strings; Option<T> is a sequence of length zero or one.   *)
(***************************************************************************)
EXTENDS Integers, Sequences, FiniteSets, TLC

VARIABLES
    env,        \* the process environment read by build()
    fs,         \* the set of paths that exist on the file system
    stack,      \* the MiddlewareStack value the caller is assembling
    last,       \* the last MiddlewareStack operation, its argument and operand
    builder,    \* the BaseClientBuilder
    client,     \* the outcome of build(): none yet, a BaseClient, or a panic
    obs,        \* what the last build() call did (probes, warnings, inputs)
    warnings,   \* the process-wide deduplicated warning sink
    req,        \* the request travelling through the composed client
    pin,        \* the AnnotatedDist being rendered
    out         \* the rendering calls made on the pin and their results

vars == <<env, fs, stack, last, builder, client, obs, warnings, req, pin, out>>

(***************************************************************************)
(* Bounds of the model.                                                    *)
(***************************************************************************)
\* longest middleware stack the caller assembles
MaxStack == 3
\* largest argument passed to with_retries
MaxRetries == 2
\* number of fragments a verbatim URL is assembled from
MaxPieces == 3
\* longest stored extras list
MaxExtras == 2

(***************************************************************************)
(* Option<T>                                                               *)
(***************************************************************************)
None == <<>>
Some(x) == <<x>>
IsSome(o) == Len(o) = 1
Unwrap(o) == o[1]

(***************************************************************************)
(* Character strings                                                       *)
(***************************************************************************)
StartsWith(s, p) ==
    /\ Len(s) >= Len(p)
    /\ \A i \in 1..Len(p) : s[i] = p[i]

\* str::strip_prefix: Some(rest) when s starts with p, None otherwise
StripPrefix(s, p) ==
    IF StartsWith(s, p) THEN Some(SubSeq(s, Len(p) + 1, Len(s))) ELSE None

(***************************************************************************)
(* Environment                                                             *)
(***************************************************************************)
\* an environment variable is unset, set to bytes that are not valid
\* Unicode, or set to a string
Unset == [kind |-> "unset", val |-> <<>>]
NotUnicode == [kind |-> "not_unicode", val |-> <<>>]
Str(s) == [kind |-> "str", val |-> s]

\* std::env::var: Ok(value) only when the variable is set AND valid Unicode
env_var(v) == IF v.kind = "str" THEN Some(v.val) ELSE None

\* std::env::var_os: Some(value) whenever the variable is set
env_var_os(v) == IF v.kind = "unset" THEN None ELSE Some(v)

TimeoutValues ==
    { Unset, NotUnicode, Str(<<"1", "5">>), Str(<<"9", "9">>),
      Str(<<"a", "b", "c">>) }

CaPath == <<"/", "c", "a">>
CertFileValues == { Unset, Str(CaPath) }

(***************************************************************************)
(* str::parse::<u64>.  The values of the model have at most three          *)
(* characters, far below the twenty digits at which u64 overflows.         *)
(***************************************************************************)
Digits == <<"0", "1", "2", "3", "4", "5", "6", "7", "8", "9">>

IsDigit(c) == \E i \in 1..Len(Digits) : Digits[i] = c

DigitVal(c) == (CHOOSE i \in 1..Len(Digits) : Digits[i] = c) - 1

RECURSIVE DigitsVal(_)
DigitsVal(s) ==
    IF s = <<>> THEN 0
    ELSE DigitsVal(SubSeq(s, 1, Len(s) - 1)) * Len(Digits) + DigitVal(s[Len(s)])

\* an optional leading plus sign, then one or more decimal digits
parse_u64(s) ==
    LET d == IF Len(s) > 0 /\ s[1] = "+" THEN Tail(s) ELSE s
    IN  IF Len(d) > 0 /\ \A i \in 1..Len(d) : IsDigit(d[i])
        THEN Some(DigitsVal(d))
        ELSE None

(***************************************************************************)
(* Warning sink (uv_warnings::warn_user_once!): process-wide, keyed by the *)
(* message text, a message already in the sink is not shown again.         *)
(***************************************************************************)
TimeoutWarning(value) == [about |-> "UV_HTTP_TIMEOUT", text |-> value]
CertFileWarning(path) == [about |-> "SSL_CERT_FILE", text |-> path]

warn_user_once(sink, msgs) == sink \cup { msgs[i] : i \in 1..Len(msgs) }

(***************************************************************************)
(* MiddlewareStack                                                         *)
(***************************************************************************)
Custom(name) == [kind |-> "custom", name |-> name, n |-> 0]
Retry(n) == [kind |-> "retry", name |-> "ExponentialBackoff", n |-> n]
Auth(keyring) == [kind |-> "auth", name |-> keyring, n |-> 0]
OfflineMiddleware == [kind |-> "offline", name |-> "offline", n |-> 0]

CustomNames == {"A", "B"}
Keyrings == {"Disabled", "Subprocess"}

\* MiddlewareStack::with
with(s, middleware) == Append(s, middleware)

\* a with_retries that pushes a layer even for zero retries
with_retries_always(s, retries) == Append(s, Retry(retries))

\* MiddlewareStack::with_retries
with_retries(s, retries) ==
    IF retries > 0 THEN Append(s, Retry(retries)) ELSE s

\* MiddlewareStack::with_auth
with_auth(s, keyring) == Append(s, Auth(keyring))

(***************************************************************************)
(* BaseClientBuilder                                                       *)
(***************************************************************************)
Online == "Online"
Offline == "Offline"

\* BaseClientBuilder::default()
DefaultBuilder ==
    [ native_tls |-> FALSE,
      connectivity |-> Online,
      client |-> None,
      markers |-> None,
      platform |-> None,
      middleware_stack |-> <<>> ]

\* uv_version::version()
Version == "0.1.0"

\* the product token and version every user agent starts with
UserAgentPrefix == <<"uv/", Version>>

\* serde_json::to_string(&linehaul) when it succeeds
LineHaulJson == "{linehaul}"

\* a user agent that appends the fragment whether or not it serialized
user_agent_unchecked(b, ser_ok) ==
    IF IsSome(b.markers) THEN UserAgentPrefix \o <<" ", LineHaulJson>>
    ELSE UserAgentPrefix

\* build(), "Create user agent" and "Add linehaul metadata"
user_agent(b, ser_ok) ==
    IF IsSome(b.markers) /\ ser_ok
    THEN UserAgentPrefix \o <<" ", LineHaulJson>>
    ELSE UserAgentPrefix

default_timeout == 30

\* env::var(A).or_else(|_| env::var(B)).or_else(|_| env::var(C))
first_var(e) ==
    IF IsSome(env_var(e.UV_HTTP_TIMEOUT)) THEN env_var(e.UV_HTTP_TIMEOUT)
    ELSE IF IsSome(env_var(e.UV_REQUEST_TIMEOUT)) THEN env_var(e.UV_REQUEST_TIMEOUT)
    ELSE env_var(e.HTTP_TIMEOUT)

\* build(), "Timeout options": the resolved timeout and the warnings raised
resolve_timeout(e) ==
    LET value == first_var(e)
    IN  IF IsSome(value)
        THEN IF IsSome(parse_u64(Unwrap(value)))
             THEN [timeout |-> Unwrap(parse_u64(Unwrap(value))), warned |-> <<>>]
             ELSE [timeout |-> default_timeout,
                   warned |-> <<TimeoutWarning(Unwrap(value))>>]
        ELSE [timeout |-> default_timeout, warned |-> <<>>]

\* build(), "Check for the presence of an SSL_CERT_FILE"
probe_cert_file(e, files) ==
    LET path == env_var_os(e.SSL_CERT_FILE)
    IN  IF IsSome(path)
        THEN [ exists |-> Unwrap(path).val \in files,
               probes |-> 1,
               warned |-> IF Unwrap(path).val \in files THEN <<>>
                          ELSE <<CertFileWarning(Unwrap(path).val)>> ]
        ELSE [exists |-> FALSE, probes |-> 0, warned |-> <<>>]

pool_max_idle_per_host == 20

\* a TLS choice that needs both the flag and the certificate file
use_native_certs_both(native_tls, ssl_cert_file_exists) ==
    native_tls /\ ssl_cert_file_exists

\* build(), "Configure TLS": the condition of the if
use_native_certs(native_tls, ssl_cert_file_exists) ==
    native_tls \/ ssl_cert_file_exists

\* build(), "Configure the builder" and "Configure TLS"
new_transport(b, ua, timeout, ssl_cert_file_exists) ==
    [ prebuilt |-> FALSE,
      user_agent |-> Some(ua),
      pool_max_idle_per_host |-> Some(pool_max_idle_per_host),
      read_timeout |-> Some(timeout),
      tls_built_in_root_certs |-> FALSE,
      tls_built_in_native_certs |-> use_native_certs(b.native_tls, ssl_cert_file_exists),
      tls_built_in_webpki_certs |-> ~use_native_certs(b.native_tls, ssl_cert_file_exists) ]

\* a reqwest::Client the caller built with reqwest's defaults
CallerClient ==
    [ prebuilt |-> TRUE,
      user_agent |-> None,
      pool_max_idle_per_host |-> None,
      read_timeout |-> None,
      tls_built_in_root_certs |-> TRUE,
      tls_built_in_native_certs |-> FALSE,
      tls_built_in_webpki_certs |-> FALSE ]

\* a composition that wraps innermost-first
compose_reversed(connectivity, middleware_stack) ==
    IF connectivity = Online
    THEN [i \in 1..Len(middleware_stack) |->
             middleware_stack[Len(middleware_stack) + 1 - i]]
    ELSE <<OfflineMiddleware>>

\* a composition that keeps the configured stack in front of the offline layer
compose_offline_keeps_stack(connectivity, middleware_stack) ==
    IF connectivity = Online THEN middleware_stack
    ELSE middleware_stack \o <<OfflineMiddleware>>

\* build(), "Wrap in any relevant middleware": the layers, outermost first
compose(connectivity, middleware_stack) ==
    IF connectivity = Online THEN middleware_stack
    ELSE <<OfflineMiddleware>>

NoClient ==
    [ status |-> "none", connectivity |-> Online, layers |-> <<>>,
      transport |-> None, timeout |-> 0 ]

NoObs ==
    [ entry |-> DefaultBuilder, ser |-> "skipped", construct |-> "skipped",
      probes |-> 0, timeout_warned |-> <<>>, cert_warned |-> <<>> ]

\* a transport acquisition that probes the certificate file even when the
\* builder holds a client
acquire_transport_probing(b, e, files, ua, timeout) ==
    LET probe == probe_cert_file(e, files)
    IN  [ transport |-> IF IsSome(b.client) THEN Unwrap(b.client)
                        ELSE new_transport(b, ua, timeout, probe.exists),
          probes |-> probe.probes,
          warned |-> probe.warned ]

\* build(), "Initialize the base client": self.client.clone() or, only when
\* there is none, the closure that probes and configures a new transport
acquire_transport(b, e, files, ua, timeout) ==
    IF IsSome(b.client)
    THEN [transport |-> Unwrap(b.client), probes |-> 0, warned |-> <<>>]
    ELSE LET probe == probe_cert_file(e, files)
         IN  [ transport |-> new_transport(b, ua, timeout, probe.exists),
               probes |-> probe.probes,
               warned |-> probe.warned ]

\* BaseClientBuilder::build.  ser_ok is the outcome of serializing the
\* linehaul data, construct_ok that of reqwest's ClientBuilder::build,
\* whose failure makes expect() panic.
build(b, e, files, ser_ok, construct_ok) ==
    LET ua == user_agent(b, ser_ok)
        t == resolve_timeout(e)
        acq == acquire_transport(b, e, files, ua, t.timeout)
        panics == ~IsSome(b.client) /\ ~construct_ok
    IN  [ client |->
              IF panics THEN [NoClient EXCEPT !.status = "panicked"]
              ELSE [ status |-> "built",
                     connectivity |-> b.connectivity,
                     layers |-> compose(b.connectivity, b.middleware_stack),
                     transport |-> Some(acq.transport),
                     timeout |-> t.timeout ],
          builder |-> b,
          obs |-> [ entry |-> b,
                    ser |-> IF IsSome(b.markers)
                            THEN (IF ser_ok THEN "ok" ELSE "failed")
                            ELSE "skipped",
                    construct |-> IF IsSome(b.client) THEN "skipped"
                                  ELSE IF construct_ok THEN "ok" ELSE "failed",
                    probes |-> acq.probes,
                    timeout_warned |-> t.warned,
                    cert_warned |-> acq.warned ] ]

(***************************************************************************)
(* A request through the composed client.  reqwest_middleware hands the    *)
(* request to the layers in the order they were attached and to the        *)
(* transport after the last one; the retry layer sends the request down    *)
(* again after a transient failure while it has attempts left.             *)
(***************************************************************************)
IdleReq ==
    [ status |-> "idle", pos |-> 0, trace |-> <<>>, left |-> <<>>,
      netio |-> 0, ua |-> None, outcome |-> "none" ]

TransportResults == {"ok", "transient", "fatal"}

\* the layers above position p that may still retry
Retriers(r, layers) ==
    { i \in 1..Len(layers) :
        i < r.pos /\ layers[i].kind = "retry" /\ r.left[i] > 0 }

Innermost(S) == CHOOSE i \in S : \A j \in S : j <= i

\* the request enters the layer at its position
handle(r, layers) ==
    IF layers[r.pos].kind = "offline"
    THEN [r EXCEPT !.status = "done", !.outcome = "offline",
                   !.trace = Append(@, r.pos)]
    ELSE [r EXCEPT !.pos = @ + 1, !.trace = Append(@, r.pos)]

\* the request reaches the transport, which answers with result
execute(r, layers, transport, result) ==
    LET sent == [r EXCEPT !.netio = @ + 1, !.ua = transport.user_agent]
    IN  IF result = "transient" /\ Retriers(r, layers) # {}
        THEN LET i == Innermost(Retriers(r, layers))
             IN  [sent EXCEPT
                     !.pos = i + 1,
                     !.left = [j \in 1..Len(layers) |->
                                  IF j = i THEN r.left[j] - 1
                                  ELSE IF j > i THEN layers[j].n
                                  ELSE r.left[j]]]
        ELSE [sent EXCEPT !.status = "done", !.outcome = result]

(***************************************************************************)
(* AnnotatedDist and to_requirements_txt                                   *)
(***************************************************************************)
\* the characters of extra names, in code-point order
Alphabet == <<"a", "c", "d", "e", "n", "o", "s", "t", "v", "y">>

Code(c) == CHOOSE i \in 1..Len(Alphabet) : Alphabet[i] = c

\* Ord for ExtraName: the lexicographic order of the underlying strings
RECURSIVE StrLess(_, _)
StrLess(a, b) ==
    IF b = <<>> THEN FALSE
    ELSE IF a = <<>> THEN TRUE
    ELSE IF a[1] = b[1] THEN StrLess(Tail(a), Tail(b))
    ELSE Code(a[1]) < Code(b[1])

RECURSIVE Insert(_, _)
Insert(x, sorted) ==
    IF sorted = <<>> THEN <<x>>
    ELSE IF StrLess(sorted[1], x) THEN <<sorted[1]>> \o Insert(x, Tail(sorted))
    ELSE <<x>> \o sorted

\* slice::sort_unstable
RECURSIVE sort_unstable(_)
sort_unstable(v) ==
    IF v = <<>> THEN <<>> ELSE Insert(v[1], sort_unstable(Tail(v)))

\* Vec::dedup: removes consecutive repeated elements
RECURSIVE dedup(_)
dedup(v) ==
    IF Len(v) <= 1 THEN v
    ELSE IF v[1] = v[2] THEN dedup(Tail(v))
    ELSE <<v[1]>> \o dedup(Tail(v))

\* Itertools::join
RECURSIVE join(_, _)
join(v, sep) ==
    IF v = <<>> THEN <<>>
    ELSE IF Len(v) = 1 THEN v[1]
    ELSE v[1] \o sep \o join(Tail(v), sep)

Colon == ":"
Slash == "/"
FileScheme == <<"f", "i", "l", "e">>
HttpScheme == <<"h", "t", "t", "p">>
EmptyAuthority == <<"/", "/">>
LocalhostAuthority == <<"/", "/", "l", "o", "c", "a", "l", "h", "o", "s", "t">>
ProjectRoot == <<"$", "{", "P", "R", "O", "J", "E", "C", "T", "_", "R", "O", "O", "T", "}">>

\* pep508_rs::split_scheme: the text before the first colon and the text
\* after it, None when the text has no colon
RECURSIVE split_scheme_at(_, _)
split_scheme_at(s, i) ==
    IF i > Len(s) THEN None
    ELSE IF s[i] = Colon
         THEN Some([scheme |-> SubSeq(s, 1, i - 1), rest |-> SubSeq(s, i + 1, Len(s))])
    ELSE split_scheme_at(s, i + 1)

split_scheme(s) == split_scheme_at(s, 1)

\* pep508_rs::Scheme::parse
scheme_parse(scheme) ==
    IF scheme = FileScheme THEN Some("File")
    ELSE IF scheme = HttpScheme THEN Some("Http")
    ELSE None

\* Path::has_root on a Unix target
has_root(path) == Len(path) > 0 /\ path[1] = Slash

\* a file branch that returns the bare path without looking at its root
file_line_unrooted(given, path) ==
    LET localhost == StripPrefix(path, LocalhostAuthority)
        stripped == StripPrefix(path, EmptyAuthority)
    IN  IF IsSome(localhost) /\ StartsWith(Unwrap(localhost), <<Slash>>)
        THEN None
        ELSE IF IsSome(stripped)
             THEN Some(Unwrap(stripped))
        ELSE Some(given)

\* a file branch that lets a scheme-relative URL fall through
file_line_relative_falls_through(given, path) ==
    LET localhost == StripPrefix(path, LocalhostAuthority)
        stripped == StripPrefix(path, EmptyAuthority)
    IN  IF IsSome(localhost) /\ StartsWith(Unwrap(localhost), <<Slash>>)
        THEN None
        ELSE IF IsSome(stripped)
             THEN IF ~StartsWith(Unwrap(stripped), ProjectRoot)
                     /\ ~has_root(Unwrap(stripped))
                  THEN Some(Unwrap(stripped))
                  ELSE None
        ELSE None

\* to_requirements_txt, the Some(Scheme::File) arm: Some(line) when the arm
\* returns, None when control continues to the generic rendering
file_line(given, path) ==
    LET localhost == StripPrefix(path, LocalhostAuthority)
        stripped == StripPrefix(path, EmptyAuthority)
    IN  IF IsSome(localhost) /\ StartsWith(Unwrap(localhost), <<Slash>>)
        THEN None
        ELSE IF IsSome(stripped)
             THEN IF ~StartsWith(Unwrap(stripped), ProjectRoot)
                     /\ ~has_root(Unwrap(stripped))
                  THEN Some(Unwrap(stripped))
                  ELSE None
        ELSE Some(given)

\* to_requirements_txt, the block for local distributions with a URL
local_url_line(p) ==
    IF p.local /\ p.url
    THEN LET given == p.text
             split == split_scheme(given)
         IN  IF IsSome(split)
             THEN LET parsed == scheme_parse(Unwrap(split).scheme)
                  IN  IF parsed = Some("File")
                      THEN file_line(given, Unwrap(split).rest)
                      ELSE IF IsSome(parsed) THEN None
                      ELSE Some(given)
             ELSE Some(given)
    ELSE None

\* Verbatim for VersionOrUrlRef
version_or_url_verbatim(p) ==
    IF p.url THEN <<" ", "@", " ">> \o p.text ELSE <<"=", "=">> \o p.text

\* Verbatim for ResolvedDist
dist_verbatim(p) == p.name \o version_or_url_verbatim(p)

\* a rendering of the extras in stored order, repetitions included
generic_line_unsorted(p, include_extras) ==
    IF p.extras = <<>> \/ ~include_extras
    THEN dist_verbatim(p)
    ELSE p.name \o <<"[">> \o join(p.extras, <<",", " ">>)
             \o <<"]">> \o version_or_url_verbatim(p)

\* to_requirements_txt, the generic rendering
generic_line(p, include_extras) ==
    IF p.extras = <<>> \/ ~include_extras
    THEN dist_verbatim(p)
    ELSE p.name \o <<"[">> \o join(dedup(sort_unstable(p.extras)), <<",", " ">>)
             \o <<"]">> \o version_or_url_verbatim(p)

\* AnnotatedDist::to_requirements_txt
to_requirements_txt(p, include_extras) ==
    IF IsSome(local_url_line(p)) THEN Unwrap(local_url_line(p))
    ELSE generic_line(p, include_extras)

(***************************************************************************)
(* The pins of the model                                                   *)
(***************************************************************************)
Pieces ==
    { FileScheme \o <<Colon>>, HttpScheme \o <<Colon>>, <<"C", Colon>>,
      EmptyAuthority, LocalhostAuthority, <<Slash>>, ProjectRoot,
      <<"a">>, <<".">> }

\* the texts assembled from at most n pieces
RECURSIVE Texts(_)
Texts(n) ==
    IF n = 0 THEN { <<>> }
    ELSE Texts(n - 1) \cup { t \o q : t \in Texts(n - 1), q \in Pieces }

ExtraNames == { <<"a", "s", "y", "n", "c">>, <<"d", "o", "t", "e", "n", "v">> }

RECURSIVE SeqsUpTo(_, _)
SeqsUpTo(S, n) ==
    IF n = 0 THEN { <<>> }
    ELSE SeqsUpTo(S, n - 1) \cup { Append(t, x) : t \in SeqsUpTo(S, n - 1), x \in S }

PackageName == <<"f", "l", "a", "s", "k">>
PinnedVersion == <<"3", ".", "0", ".", "3">>

Pins ==
    { [name |-> PackageName, local |-> l, url |-> TRUE, text |-> t, extras |-> e] :
        l \in BOOLEAN, t \in Texts(MaxPieces), e \in SeqsUpTo(ExtraNames, MaxExtras) }
    \cup
    { [name |-> PackageName, local |-> l, url |-> FALSE, text |-> PinnedVersion,
       extras |-> e] :
        l \in BOOLEAN, e \in SeqsUpTo(ExtraNames, MaxExtras) }

(***************************************************************************)
(* Actions.  The model follows one MiddlewareStack and one builder through *)
(* configuration, build() and the requests made with the built client.     *)
(***************************************************************************)
Configuring == client.status = "none"

With(m) ==
    /\ Configuring /\ stack.live /\ Len(stack.items) < MaxStack
    /\ stack' = [stack EXCEPT !.items = with(@, Custom(m))]
    /\ last' = [op |-> "with", arg |-> 0, before |-> stack.items]
    /\ UNCHANGED <<env, fs, builder, client, obs, warnings, req, pin, out>>

WithRetries(n) ==
    /\ Configuring /\ stack.live /\ Len(stack.items) < MaxStack
    /\ stack' = [stack EXCEPT !.items = with_retries(@, n)]
    /\ last' = [op |-> "with_retries", arg |-> n, before |-> stack.items]
    /\ UNCHANGED <<env, fs, builder, client, obs, warnings, req, pin, out>>

WithAuth(k) ==
    /\ Configuring /\ stack.live /\ Len(stack.items) < MaxStack
    /\ stack' = [stack EXCEPT !.items = with_auth(@, k)]
    /\ last' = [op |-> "with_auth", arg |-> 0, before |-> stack.items]
    /\ UNCHANGED <<env, fs, builder, client, obs, warnings, req, pin, out>>

NoOp == [op |-> "none", arg |-> 0, before |-> <<>>]

\* BaseClientBuilder::middleware_stack: the stack is moved into the builder
SetMiddlewareStack ==
    /\ Configuring /\ stack.live
    /\ builder' = [builder EXCEPT !.middleware_stack = stack.items]
    /\ stack' = [live |-> FALSE, items |-> <<>>]
    /\ last' = NoOp
    /\ UNCHANGED <<env, fs, client, obs, warnings, req, pin, out>>

\* BaseClientBuilder::connectivity
SetConnectivity(c) ==
    /\ Configuring
    /\ builder' = [builder EXCEPT !.connectivity = c]
    /\ UNCHANGED <<env, fs, stack, last, client, obs, warnings, req, pin, out>>

\* BaseClientBuilder::native_tls
SetNativeTls(f) ==
    /\ Configuring
    /\ builder' = [builder EXCEPT !.native_tls = f]
    /\ UNCHANGED <<env, fs, stack, last, client, obs, warnings, req, pin, out>>

\* BaseClientBuilder::client
SetClient(c) ==
    /\ Configuring
    /\ builder' = [builder EXCEPT !.client = Some(c)]
    /\ UNCHANGED <<env, fs, stack, last, client, obs, warnings, req, pin, out>>

\* BaseClientBuilder::markers
SetMarkers ==
    /\ Configuring
    /\ builder' = [builder EXCEPT !.markers = Some("markers")]
    /\ UNCHANGED <<env, fs, stack, last, client, obs, warnings, req, pin, out>>

\* BaseClientBuilder::build, called on a builder any number of times
Build ==
    /\ req.status = "idle"
    /\ \E ser_ok \in BOOLEAN, construct_ok \in BOOLEAN :
          LET r == build(builder, env, fs, ser_ok, construct_ok)
          IN  /\ client' = r.client
              /\ builder' = r.builder
              /\ obs' = r.obs
              /\ warnings' = warn_user_once(warnings,
                                  r.obs.timeout_warned \o r.obs.cert_warned)
    /\ UNCHANGED <<env, fs, stack, last, req, pin, out>>

\* a request is issued through the built client
StartRequest ==
    /\ client.status = "built" /\ req.status = "idle"
    /\ req' = [IdleReq EXCEPT
                  !.status = "running", !.pos = 1, !.outcome = "pending",
                  !.left = [i \in 1..Len(client.layers) |-> client.layers[i].n]]
    /\ UNCHANGED <<env, fs, stack, last, builder, client, obs, warnings, pin, out>>

\* the next layer of the client handles the request
Handle ==
    /\ req.status = "running" /\ req.pos <= Len(client.layers)
    /\ req' = handle(req, client.layers)
    /\ UNCHANGED <<env, fs, stack, last, builder, client, obs, warnings, pin, out>>

\* the transport performs the network I/O of the request
Execute ==
    /\ req.status = "running" /\ req.pos = Len(client.layers) + 1
    /\ \E result \in TransportResults :
          req' = execute(req, client.layers, Unwrap(client.transport), result)
    /\ UNCHANGED <<env, fs, stack, last, builder, client, obs, warnings, pin, out>>

\* the caller takes the outcome of the request; the client is free again
Finish ==
    /\ req.status = "done"
    /\ req' = IdleReq
    /\ UNCHANGED <<env, fs, stack, last, builder, client, obs, warnings, pin, out>>

\* the manifest writer renders the pin, with or without its extras
Render(include_extras) ==
    /\ out' = <<[include_extras |-> include_extras,
                 line |-> to_requirements_txt(pin, include_extras)]>>
    /\ UNCHANGED <<env, fs, stack, last, builder, client, obs, warnings, req, pin>>

NoPin ==
    [ name |-> <<>>, local |-> FALSE, url |-> FALSE, text |-> <<>>,
      extras |-> <<>> ]

UnsetEnv ==
    [ UV_HTTP_TIMEOUT |-> Unset, UV_REQUEST_TIMEOUT |-> Unset,
      HTTP_TIMEOUT |-> Unset, SSL_CERT_FILE |-> Unset ]

\* the middleware stack is assembled operation by operation
Init ==
    /\ env = UnsetEnv
    /\ fs = {}
    /\ stack = [live |-> TRUE, items |-> <<>>]
    /\ last = NoOp
    /\ builder = DefaultBuilder
    /\ client = NoClient
    /\ obs = NoObs
    /\ warnings = {}
    /\ req = IdleReq
    /\ pin = NoPin
    /\ out = <<>>

Next ==
    \/ \E m \in CustomNames : With(m)
    \/ \E n \in 0..MaxRetries : WithRetries(n)
    \/ \E k \in Keyrings : WithAuth(k)
    \/ SetMiddlewareStack
    \/ \E c \in {Online, Offline} : SetConnectivity(c)
    \/ SetClient(CallerClient)
    \/ Build
    \/ StartRequest
    \/ Handle
    \/ Execute
    \/ Finish

Spec == Init /\ [][Next]_vars

\* the environment and the builder's settings vary, the stack is given
InitEnv ==
    /\ env \in [ UV_HTTP_TIMEOUT : TimeoutValues,
                  UV_REQUEST_TIMEOUT : TimeoutValues,
                  HTTP_TIMEOUT : TimeoutValues,
                  SSL_CERT_FILE : CertFileValues ]
    /\ fs \in SUBSET {CaPath}
    /\ stack = [live |-> TRUE, items |-> <<Custom("A")>>]
    /\ last = NoOp
    /\ builder = DefaultBuilder
    /\ client = NoClient
    /\ obs = NoObs
    /\ warnings = {}
    /\ req = IdleReq
    /\ pin = NoPin
    /\ out = <<>>

NextEnv ==
    \/ SetMiddlewareStack
    \/ \E c \in {Online, Offline} : SetConnectivity(c)
    \/ \E f \in BOOLEAN : SetNativeTls(f)
    \/ SetClient(CallerClient)
    \/ SetMarkers
    \/ Build
    \/ StartRequest
    \/ Handle
    \/ Execute
    \/ Finish

SpecEnv == InitEnv /\ [][NextEnv]_vars

\* the resolver has produced a pin; no client is involved
InitTxt ==
    /\ env = UnsetEnv
    /\ fs = {}
    /\ stack = [live |-> TRUE, items |-> <<>>]
    /\ last = NoOp
    /\ builder = DefaultBuilder
    /\ client = NoClient
    /\ obs = NoObs
    /\ warnings = {}
    /\ req = IdleReq
    /\ pin \in Pins
    /\ out = <<>>

NextTxt == \E include_extras \in BOOLEAN : Render(include_extras)

SpecTxt == InitTxt /\ [][NextTxt]_vars

(***************************************************************************)
(* Properties                                                              *)
(***************************************************************************)
Built == client.status = "built"
BuiltOffline == Built /\ obs.entry.connectivity = Offline
BuiltOnline == Built /\ obs.entry.connectivity = Online
HeldClient == IsSome(obs.entry.client)

Count(v, kind) == Cardinality({ i \in 1..Len(v) : v[i].kind = kind })

\* C1: an Offline builder yields the transport wrapped by exactly one
\* offline-enforcement layer and none of the configured middleware; every
\* request through it ends in the offline rejection, performs no network I/O
\* and is handled once (never retried).
C1_OfflineIgnoresStack ==
    BuiltOffline =>
        /\ Len(client.layers) = 1
        /\ Count(client.layers, "offline") = 1
        /\ \A i \in 1..Len(obs.entry.middleware_stack) :
              \A j \in 1..Len(client.layers) :
                 client.layers[j] # obs.entry.middleware_stack[i]
        /\ IsSome(client.transport)
        /\ req.netio = 0
        /\ Len(req.trace) <= 1
        /\ (req.status = "done" => req.outcome = "offline" /\ req.trace = <<1>>)
        /\ (req.status = "running" => req.pos = 1 /\ req.trace = <<>>)

C1_Witness ==
    /\ BuiltOffline
    /\ Len(obs.entry.middleware_stack) = MaxStack
    /\ Count(obs.entry.middleware_stack, "retry") > 0
    /\ req.status = "done" /\ req.outcome = "offline"

\* the first position at which layer i observed the request, 0 if never
FirstSeen(trace, i) ==
    IF \E k \in 1..Len(trace) : trace[k] = i
    THEN CHOOSE k \in 1..Len(trace) :
            trace[k] = i /\ \A h \in 1..(k - 1) : trace[h] # i
    ELSE 0

\* C3: an Online builder yields a client whose layers are the configured
\* middleware, each once and in insertion order, with no offline layer;
\* a layer appended earlier observes the request before a later one, and
\* all of them have observed it when it reaches the transport.
C3_OnlineInsertionOrder ==
    BuiltOnline =>
        /\ client.layers = obs.entry.middleware_stack
        /\ Count(client.layers, "offline") = 0
        /\ \A i, j \in 1..Len(client.layers) :
              (i < j /\ FirstSeen(req.trace, j) > 0) =>
                 /\ FirstSeen(req.trace, i) > 0
                 /\ FirstSeen(req.trace, i) < FirstSeen(req.trace, j)
        /\ (req.netio > 0 =>
               \A i \in 1..Len(client.layers) : FirstSeen(req.trace, i) > 0)

C3_Witness ==
    /\ BuiltOnline
    /\ Len(client.layers) = MaxStack
    /\ client.layers[1] # client.layers[Len(client.layers)]
    /\ req.netio > 0

\* C4: with_retries(0) returns the stack as it was; with_retries(n), n > 0,
\* returns it with one retry transform for n attempts appended at the end.
C4_WithRetries ==
    (stack.live /\ last.op = "with_retries") =>
        IF last.arg = 0
        THEN stack.items = last.before
        ELSE /\ Len(stack.items) = Len(last.before) + 1
             /\ SubSeq(stack.items, 1, Len(last.before)) = last.before
             /\ stack.items[Len(stack.items)].kind = "retry"
             /\ stack.items[Len(stack.items)].n = last.arg
             /\ Count(stack.items, "retry") = Count(last.before, "retry") + 1

C4_Witness ==
    /\ stack.live /\ last.op = "with_retries"
    /\ last.arg > 0 /\ last.before # <<>>
    /\ Len(stack.items) = Len(last.before) + 1

\* the variables in priority order
TimeoutVariables(e) == <<e.UV_HTTP_TIMEOUT, e.UV_REQUEST_TIMEOUT, e.HTTP_TIMEOUT>>

\* the first variable that is set, None when none is
FirstSet(e) ==
    LET v == TimeoutVariables(e)
        S == { i \in 1..Len(v) : v[i].kind # "unset" }
    IN  IF S = {} THEN None
        ELSE Some(v[CHOOSE i \in S : \A j \in S : i <= j])

IsNumber(v) == v.kind = "str" /\ IsSome(parse_u64(v.val))

\* C2: the timeout is decided by the first variable that is set: its value
\* when it parses, else 30 with a warning; 30 without a warning when no
\* variable is set.
C2_FirstSetVariableWins ==
    Built =>
        IF ~IsSome(FirstSet(env))
        THEN client.timeout = default_timeout /\ obs.timeout_warned = <<>>
        ELSE IF IsNumber(Unwrap(FirstSet(env)))
             THEN /\ client.timeout = Unwrap(parse_u64(Unwrap(FirstSet(env)).val))
                  /\ obs.timeout_warned = <<>>
             ELSE /\ client.timeout = default_timeout
                  /\ Len(obs.timeout_warned) = 1
                  /\ \A i \in 1..Len(obs.timeout_warned) :
                        obs.timeout_warned[i] \in warnings

\* the user agent build() computes: the prefix, and the fragment exactly when
\* markers were supplied and serialized
ExpectedUserAgent ==
    IF obs.ser = "ok" THEN UserAgentPrefix \o <<" ", LineHaulJson>>
    ELSE UserAgentPrefix

\* C5 as stated: every outbound request of every built client, with or
\* without a pre-built transport, carries a user agent that begins with
\* uv/<version>.
C5_EveryRequestCarriesUserAgent ==
    (Built /\ req.netio > 0) =>
        IsSome(req.ua) /\ StartsWith(Unwrap(req.ua), UserAgentPrefix)

\* C5 amended: when build() constructs the transport, every outbound request
\* carries uv/<version>, followed by the fingerprint exactly when markers
\* were supplied and serialized; with a pre-built transport requests carry
\* that transport's own user agent; build() fails only when the transport
\* cannot be constructed, never because serialization failed.
C5_UserAgentOfConstructedTransport ==
    /\ (Built /\ ~HeldClient) =>
          /\ (~IsSome(obs.entry.markers) => obs.ser = "skipped")
          /\ Unwrap(client.transport).user_agent = Some(ExpectedUserAgent)
          /\ (req.netio > 0 =>
                 /\ req.ua = Some(ExpectedUserAgent)
                 /\ StartsWith(Unwrap(req.ua), UserAgentPrefix))
    /\ (Built /\ HeldClient) =>
          /\ Unwrap(client.transport).user_agent = Unwrap(obs.entry.client).user_agent
          /\ (req.netio > 0 => req.ua = Unwrap(obs.entry.client).user_agent)
    /\ (client.status = "panicked" => obs.construct = "failed")
    /\ ((obs.ser = "failed" /\ obs.construct # "failed") => Built)

C5_Witness ==
    /\ Built /\ ~HeldClient
    /\ obs.ser = "failed"
    /\ req.netio > 0
    /\ req.ua = Some(UserAgentPrefix)

\* C9: with a pre-built transport build() uses it unchanged, performs no
\* certificate-file probe, raises no SSL_CERT_FILE warning, applies no trust
\* store, pool cap or read timeout to it, still resolves the timeout from
\* the environment, and leaves the builder as it was.
C9_HeldClientUsedUnchanged ==
    (Built /\ HeldClient) =>
        /\ client.transport = obs.entry.client
        /\ obs.probes = 0
        /\ obs.cert_warned = <<>>
        /\ \A w \in warnings : w.about # "SSL_CERT_FILE"
        /\ Unwrap(client.transport).read_timeout = CallerClient.read_timeout
        /\ Unwrap(client.transport).pool_max_idle_per_host
              = CallerClient.pool_max_idle_per_host
        /\ Unwrap(client.transport).tls_built_in_root_certs
              = CallerClient.tls_built_in_root_certs
        /\ client.timeout = resolve_timeout(env).timeout
        /\ (IsNumber(env.UV_HTTP_TIMEOUT) =>
               client.timeout = Unwrap(parse_u64(env.UV_HTTP_TIMEOUT.val)))
        /\ builder = obs.entry

C9_Witness ==
    /\ Built /\ HeldClient
    /\ env.SSL_CERT_FILE # Unset /\ fs = {}
    /\ env.UV_HTTP_TIMEOUT = Str(<<"1", "5">>)
    /\ client.timeout # default_timeout
    /\ req.netio > 0

CertFileExists == env.SSL_CERT_FILE.kind # "unset" /\ env.SSL_CERT_FILE.val \in fs
CertFileMissing == env.SSL_CERT_FILE.kind # "unset" /\ env.SSL_CERT_FILE.val \notin fs

Rendered == out # <<>>
Line == out[1].line
Flag == out[1].include_extras

Drop(s, n) == SubSeq(s, n + 1, Len(s))

LocalUrl == pin.local /\ pin.url
FilePrefix == FileScheme \o <<Colon>>
HttpPrefix == HttpScheme \o <<Colon>>
IsFileUrl == StartsWith(pin.text, FilePrefix)

\* the text after "file:" and, when it starts with "//", the text after that
Remainder == Drop(pin.text, Len(FilePrefix))
BarePath == Drop(Remainder, Len(EmptyAuthority))

HasAuthority == StartsWith(Remainder, EmptyAuthority)
LocalhostAbsolute == StartsWith(Remainder, LocalhostAuthority \o <<Slash>>)
Placeholder == StartsWith(BarePath, ProjectRoot)
Rooted == BarePath # <<>> /\ Head(BarePath) = Slash

ReturnsBarePath ==
    HasAuthority /\ ~LocalhostAbsolute /\ ~Placeholder /\ ~Rooted
FileFallsThrough ==
    LocalhostAbsolute \/ (HasAuthority /\ (Placeholder \/ Rooted))

\* the least element of a non-empty set of names
Least(S) == CHOOSE x \in S : \A y \in S : x = y \/ StrLess(x, y)

\* the names of a set in ascending order, each once
RECURSIVE Ascending(_)
Ascending(S) ==
    IF S = {} THEN <<>> ELSE <<Least(S)>> \o Ascending(S \ {Least(S)})

Elements(v) == { v[i] : i \in 1..Len(v) }

RECURSIVE Joined(_)
Joined(v) ==
    IF v = <<>> THEN <<>>
    ELSE IF Len(v) = 1 THEN v[1]
    ELSE v[1] \o <<",", " ">> \o Joined(Tail(v))

VersionOrUrlText ==
    IF pin.url THEN <<" ", "@", " ">> \o pin.text ELSE <<"=", "=">> \o pin.text

\* the line generic rendering is to produce
GenericExpected(include_extras) ==
    IF pin.extras = <<>> \/ ~include_extras
    THEN pin.name \o VersionOrUrlText
    ELSE pin.name \o <<"[">> \o Joined(Ascending(Elements(pin.extras)))
            \o <<"]">> \o VersionOrUrlText

\* C6: for a local file URL the line is the bare path exactly when the
\* remainder starts with "//", is not "//localhost" followed by "/", and the
\* bare path neither starts with ${PROJECT_ROOT} nor is rooted; for
\* "//localhost/..." and for a placeholder or rooted bare path the line is
\* the generic rendering.
C6_FileUrlBarePath ==
    (Rendered /\ LocalUrl /\ IsFileUrl) =>
        /\ (ReturnsBarePath => Line = BarePath)
        /\ ((HasAuthority /\ ~ReturnsBarePath) => Line # BarePath)
        /\ (FileFallsThrough => Line = GenericExpected(Flag))

C6_Witness ==
    /\ Rendered /\ LocalUrl
    /\ pin.text = FilePrefix \o EmptyAuthority \o <<"a">>
    /\ pin.extras # <<>> /\ Flag
    /\ Line = <<"a">>

HasColon == \E i \in 1..Len(pin.text) : pin.text[i] = Colon

\* the text before the first colon
SchemeToken ==
    LET k == CHOOSE i \in 1..Len(pin.text) :
                 pin.text[i] = Colon /\ \A j \in 1..(i - 1) : pin.text[j] # Colon
    IN  SubSeq(pin.text, 1, k - 1)

Unrecognized == HasColon /\ SchemeToken \notin {FileScheme, HttpScheme}
SchemeRelative == IsFileUrl /\ ~HasAuthority

\* C7: for a local URL without a scheme delimiter, with an unrecognized
\* scheme, or with scheme file and a remainder that does not start with
\* "//", the line is the URL's verbatim text, whatever the extras and the
\* extras flag.
C7_VerbatimUnchanged ==
    (Rendered /\ LocalUrl /\ (~HasColon \/ Unrecognized \/ SchemeRelative)) =>
        Line = pin.text

C7_Witness ==
    /\ Rendered /\ LocalUrl
    /\ pin.text = FilePrefix \o <<".", Slash>>
    /\ pin.extras # <<>> /\ Flag
    /\ Line = pin.text

ReachesGeneric ==
    \/ ~pin.local
    \/ ~pin.url
    \/ StartsWith(pin.text, HttpPrefix)
    \/ (IsFileUrl /\ FileFallsThrough)

\* C8: a pin that reaches generic rendering yields its verbatim text when
\* it has no extras or the flag is false, and otherwise the name, the extras
\* ascending and without duplicates in brackets, and the verbatim
\* version-or-URL; any stored list with the same extras yields the same line.
C8_GenericRendering ==
    (Rendered /\ ReachesGeneric) =>
        /\ Line = GenericExpected(Flag)
        /\ \A e \in SeqsUpTo(ExtraNames, MaxExtras) :
              Elements(e) = Elements(pin.extras) =>
                 to_requirements_txt([pin EXCEPT !.extras = e], Flag) = Line

C8_Witness ==
    /\ Rendered /\ ~pin.local /\ ~pin.url
    /\ pin.extras = <<<<"d", "o", "t", "e", "n", "v">>, <<"a", "s", "y", "n", "c">>>>
    /\ Flag
    /\ Line = <<"f", "l", "a", "s", "k", "[", "a", "s", "y", "n", "c", ",", " ", "d", "o", "t", "e", "n", "v", "]", "=", "=", "3", ".", "0", ".", "3">>

====
